---- MODULE Spec2Model ----
(***************************************************************************)
(* xssh (src/Linux/xssh.py): SSH multi-host command executor.              *)
(*                                                                         *)
(* Strings are sequences of character codes (ASCII), so that substring     *)
(* tests, lower-casing, splitting and ordering are computed as Python      *)
(* computes them.  The ssh configuration file is read line by line; a line *)
(* is the record of its keyword and its whitespace-separated arguments.    *)
(***************************************************************************)
EXTENDS Integers, Sequences, FiniteSets, TLC

VARIABLES
    pc,            \* position of the main thread
    exitCode,      \* process exit status (-1 while running)
    MASS_MODE, SUDO_MODE, VERBOSE_MODE, USERNAME, PATTERN, HOSTS, COMMAND,
    host_pattern,  \* extract_hosts: local
    lineno,        \* extract_hosts: number of configuration lines read
    line,          \* extract_hosts: the loop variable, the line read last
    current_host,  \* extract_hosts: local
    hostnames,     \* extract_hosts: local dict alias -> address
    hosts_set,     \* extract_hosts: local set of aliases
    workers,       \* one execute_ssh activation per element of HOSTS
    started,       \* parallel_execute: number of threads started
    files,         \* tmpdir: file name -> content (a sequence of blocks)
    stdout,        \* what the process printed, in order
    connects,      \* hosts on which ssh.connect was called, in call order
    tmpRemoved     \* os.rmdir(tmpdir) succeeded

vars == <<pc, exitCode, MASS_MODE, SUDO_MODE, VERBOSE_MODE, USERNAME, PATTERN,
          HOSTS, COMMAND, host_pattern, lineno, line, current_host, hostnames,
          hosts_set, workers, started, files, stdout, connects, tmpRemoved>>

----------------------------------------------------------------------------
(* Bounds of the model.                                                     *)

MaxLines == 4
MaxAliases == 2

----------------------------------------------------------------------------
(* Strings.                                                                 *)

\* ""
EmptyStr == << >>
\* "."
Dot == <<46>>
\* "*"
Star == <<42>>
\* "@"
At == <<64>>
\* " "
Space == <<32>>
\* "'"
Quote == <<39>>

\* Python: t in s
Contains(s, t) ==
    \E i \in 0..(Len(s) - Len(t)) : SubSeq(s, i + 1, i + Len(t)) = t

\* Python: s.lower() (ASCII)
Lower(s) == [i \in 1..Len(s) |-> IF s[i] \in 65..90 THEN s[i] + 32 ELSE s[i]]

\* position of the first occurrence of the one-character string c in s, 0 if none
FirstIndex(s, c) ==
    IF \E i \in 1..Len(s) : s[i] = c[1]
    THEN CHOOSE i \in 1..Len(s) : s[i] = c[1] /\ \A j \in 1..(i - 1) : s[j] # c[1]
    ELSE 0

RECURSIVE Split(_, _)
\* Python: s.split(c) for a one-character separator c
Split(s, c) ==
    LET i == FirstIndex(s, c)
    IN  IF i = 0 THEN <<s>>
        ELSE <<SubSeq(s, 1, i - 1)>> \o Split(SubSeq(s, i + 1, Len(s)), c)

RECURSIVE Join(_, _)
\* Python: sep.join(parts)
Join(parts, sep) ==
    IF parts = << >> THEN EmptyStr
    ELSE IF Len(parts) = 1 THEN parts[1]
    ELSE parts[1] \o sep \o Join(Tail(parts), sep)

\* Python: a < b for strings (code point order, a proper prefix is smaller)
StrLess(a, b) ==
    \E k \in 1..(Len(b)) :
        /\ k <= Len(a) + 1
        /\ \A j \in 1..(k - 1) : a[j] = b[j]
        /\ \/ k = Len(a) + 1
           \/ k <= Len(a) /\ a[k] < b[k]

\* Python: x < y for lists of strings
ListLess(x, y) ==
    \E k \in 1..(Len(y)) :
        /\ k <= Len(x) + 1
        /\ \A j \in 1..(k - 1) : x[j] = y[j]
        /\ \/ k = Len(x) + 1
           \/ k <= Len(x) /\ StrLess(x[k], y[k])

----------------------------------------------------------------------------
(* Inputs: the ssh configuration file and the command line.                 *)

\* the aliases of the configuration files a run reads: "a.B", "a-b", "b*"
AliasUniverse == { <<97, 46, 66>>, <<97, 45, 98>>, <<98, 42>> }
\* the aliases of the configuration files host resolution is checked on:
\* "a", "a.B", "a-b", "b*"
WideAliasUniverse == { <<97>>, <<97, 46, 66>>, <<97, 45, 98>>, <<98, 42>> }
\* "h", "a-b"
AddressUniverse == { <<104>>, <<97, 45, 98>> }
\* "b", "u@A", "h", "u@a.@"
PatternUniverse == { <<98>>, <<117, 64, 65>>, <<104>>, <<117, 64, 97, 46, 64>> }

RECURSIVE SeqsUpTo(_, _)
SeqsUpTo(S, n) ==
    IF n = 0 THEN { << >> }
    ELSE LET shorter == SeqsUpTo(S, n - 1)
         IN  shorter \cup { Append(s, x) : s \in shorter, x \in S }

\* the lines of a configuration file over the aliases A: "Host" with up to
\* MaxAliases aliases, "Hostname" with an address, and a line that is skipped
LinesOver(A) ==
    { [kind |-> "Host", args |-> a] : a \in SeqsUpTo(A, MaxAliases) \ { << >> } }
    \cup { [kind |-> "Hostname", args |-> <<a>>] : a \in AddressUniverse }
    \cup { [kind |-> "skip", args |-> << >>] }

ConfigLines == LinesOver(AliasUniverse)

WideConfigLines == LinesOver(WideAliasUniverse)

\* "ls", "-l", "", "ls|wc", "cat <(id)", "reboot", "xreboot", "shutdown", "poweroff"
Tok_ls == <<108, 115>>
Tok_l == <<45, 108>>
Tok_pipe == <<108, 115, 124, 119, 99>>
Tok_subst == <<99, 97, 116, 32, 60, 40, 105, 100, 41>>
Tok_reboot == <<114, 101, 98, 111, 111, 116>>
Tok_xreboot == <<120, 114, 101, 98, 111, 111, 116>>
Tok_shutdown == <<115, 104, 117, 116, 100, 111, 119, 110>>
Tok_poweroff == <<112, 111, 119, 101, 114, 111, 102, 102>>

\* the command lines a run is started with
CommandUniverse ==
    { << >>, <<EmptyStr>>, <<Tok_ls>>, <<Tok_ls, Tok_l>>, <<Tok_pipe>>, <<Tok_subst>>,
      <<Tok_reboot>>, <<Tok_ls, Tok_xreboot>>, <<Tok_shutdown>>, <<Tok_poweroff>> }

\* args = parse_arguments(): what argparse hands to validate_input
Args ==
    [mass : BOOLEAN, sudo : BOOLEAN, verbose : BOOLEAN,
     pattern : PatternUniverse, command : CommandUniverse]

\* an empty dict
EmptyDict == [a \in {} |-> EmptyStr]

----------------------------------------------------------------------------
(* validate_input, validate_command.                                        *)

\* forbidden_commands = ["shutdown", "poweroff", "reboot"]
forbidden_commands == { Tok_shutdown, Tok_poweroff, Tok_reboot }

\* validate_command exits: some forbidden command is a substring of " ".join(COMMAND)
ForbiddenTokensOnly(command) ==
    \E cmd \in forbidden_commands : \E i \in 1..Len(command) : command[i] = cmd

Forbidden(command) ==
    \E cmd \in forbidden_commands : Contains(Join(command, Space), cmd)

\* validate_input: sets the globals from args; in mass mode an empty command
\* or a forbidden one ends the process with status 1
ValidateInput ==
    /\ pc = "start"
    /\ \E args \in Args :
        /\ MASS_MODE' = args.mass
        /\ SUDO_MODE' = args.sudo
        /\ VERBOSE_MODE' = args.verbose
        /\ PATTERN' = args.pattern
        /\ COMMAND' = args.command
        /\ IF args.mass /\ args.command = << >>
           THEN pc' = "exit" /\ exitCode' = 1
           ELSE IF args.mass /\ Forbidden(args.command)
           THEN pc' = "exit" /\ exitCode' = 1
           ELSE pc' = "extract" /\ exitCode' = exitCode
    /\ UNCHANGED <<USERNAME, HOSTS, host_pattern, lineno, current_host, hostnames,
                   hosts_set, workers, started, files, stdout, connects, tmpRemoved,
                   line>>

----------------------------------------------------------------------------
(* extract_hosts.                                                           *)

\* USERNAME, host_pattern = PATTERN.split("@", 1) when "@" in PATTERN
UserOf(pattern) ==
    LET i == FirstIndex(pattern, At)
    IN  IF i = 0 THEN EmptyStr ELSE SubSeq(pattern, 1, i - 1)

HostPatternOf(pattern) ==
    LET i == FirstIndex(pattern, At)
    IN  IF i = 0 THEN pattern ELSE SubSeq(pattern, i + 1, Len(pattern))

\* no line has been read
NoLine == [kind |-> "none", args |-> << >>]

\* lines 142-156: split the pattern, HOSTS = [], open the configuration file
\* if it is a file
ExtractBegin ==
    /\ pc = "extract"
    /\ USERNAME' = UserOf(PATTERN)
    /\ host_pattern' = HostPatternOf(PATTERN)
    /\ HOSTS' = << >>
    /\ \E isfile \in BOOLEAN :
        pc' = IF isfile THEN "parse" ELSE "gate"
    /\ current_host' = EmptyStr
    /\ hostnames' = EmptyDict
    /\ hosts_set' = {}
    /\ lineno' = 0
    /\ line' = NoLine
    /\ UNCHANGED <<exitCode, MASS_MODE, SUDO_MODE, VERBOSE_MODE, PATTERN, COMMAND,
                   workers, started, files, stdout, connects, tmpRemoved>>

RECURSIVE HostLine(_, _, _)
\* for h in parts[1:]: if "*" not in h: current_host = h; hosts_set.add(h)
\* returns <<current_host, hosts_set>>
HostLine(aliases, cur, set) ==
    IF aliases = << >> THEN <<cur, set>>
    ELSE LET h == Head(aliases)
         IN  IF ~Contains(h, Star)
             THEN HostLine(Tail(aliases), h, set \cup {h})
             ELSE HostLine(Tail(aliases), cur, set)

\* hostnames[current_host] = address
DictSet(d, k, v) == [a \in DOMAIN d \cup {k} |-> IF a = k THEN v ELSE d[a]]

\* lines 157-169: one iteration of the loop over the lines of the file, the
\* line being one of L
ParseLineOver(L) ==
    /\ pc = "parse"
    /\ lineno < MaxLines
    /\ \E l \in L :
        /\ lineno' = lineno + 1
        /\ line' = l
        /\ IF l.kind = "Host"
           THEN /\ current_host' = HostLine(l.args, current_host, hosts_set)[1]
                /\ hosts_set' = HostLine(l.args, current_host, hosts_set)[2]
                /\ hostnames' = hostnames
           ELSE IF l.kind = "Hostname" /\ current_host # EmptyStr
           THEN /\ hostnames' = DictSet(hostnames, current_host, l.args[1])
                /\ UNCHANGED <<current_host, hosts_set>>
           ELSE UNCHANGED <<current_host, hosts_set, hostnames>>
    /\ UNCHANGED <<pc, exitCode, MASS_MODE, SUDO_MODE, VERBOSE_MODE, USERNAME, PATTERN,
                   HOSTS, COMMAND, host_pattern, workers, started, files, stdout,
                   connects, tmpRemoved>>

ParseLine == ParseLineOver(ConfigLines)

ParseLineWide == ParseLineOver(WideConfigLines)

\* a sort key that compares whole names
SortKeyWhole(x) == <<x>>

\* key=lambda x: x.split(".")
SortKey(x) == Split(x, Dot)

RECURSIVE Sorted(_)
\* sorted(hosts_set, key=...): keys of distinct names are distinct
Sorted(S) ==
    IF S = {} THEN << >>
    ELSE LET m == CHOOSE x \in S :
                    \A y \in S \ {x} : ListLess(SortKey(x), SortKey(y))
         IN  <<m>> \o Sorted(S \ {m})

\* hostnames.get(host, host)
DictGet(d, k) == IF k \in DOMAIN d THEN d[k] ELSE k

\* no address counts as printed before
SeenNever(hostname, printed) == FALSE

\* hostname in printed
Seen(hostname, printed) == hostname \in printed

RECURSIVE MatchLoop(_, _, _, _, _)
\* lines 171-176: the loop body over the sorted aliases, from position i
MatchLoop(sorted, i, hp, names, acc) ==
    IF i > Len(sorted) THEN acc
    ELSE LET host == sorted[i]
             hostname == DictGet(names, host)
             printed == { acc[k] : k \in 1..Len(acc) }
         IN  IF Contains(Lower(host), Lower(hp)) /\ ~Contains(host, Star)
                /\ ~Seen(hostname, printed)
             THEN MatchLoop(sorted, i + 1, hp, names, Append(acc, hostname))
             ELSE MatchLoop(sorted, i + 1, hp, names, acc)

\* lines 170-176: end of the file; HOSTS is filled from the sorted aliases
MatchHosts ==
    /\ pc = "parse"
    /\ HOSTS' = MatchLoop(Sorted(hosts_set), 1, host_pattern, hostnames, HOSTS)
    /\ pc' = "gate"
    /\ UNCHANGED <<exitCode, MASS_MODE, SUDO_MODE, VERBOSE_MODE, USERNAME, PATTERN,
                   COMMAND, host_pattern, lineno, current_host, hostnames, hosts_set,
                   workers, started, files, stdout, connects, tmpRemoved,
                   line>>

\* a gate that lets two hosts through
AmbiguousOverTwo(host_count, mass) == host_count > 2 /\ ~mass

\* host_count > 1 and not MASS_MODE
Ambiguous(host_count, mass) == host_count > 1 /\ ~mass

\* a fallback that leaves the list as it is
FallbackNone(hosts, hp) == hosts

\* if not HOSTS: HOSTS = [host_pattern]
Fallback(hosts, hp) == IF hosts = << >> THEN <<hp>> ELSE hosts

\* a worker that has not been started
IdleWorker ==
    [pc |-> "idle", exit_code |-> 0, remote_cmd |-> EmptyStr, session |-> "none",
     closes |-> 0, raised |-> FALSE, ran |-> FALSE, status |-> 0, output |-> EmptyStr,
     dispatched |-> << >>, fifos |-> << >>, producers |-> << >>, builds |-> 0]

\* lines 178-188: the ambiguity gate and the fallback; extract_hosts returns
Gate ==
    /\ pc = "gate"
    /\ IF Ambiguous(Len(HOSTS), MASS_MODE)
       THEN /\ stdout' = Append(stdout, [kind |-> "multiple", hosts |-> HOSTS])
            /\ pc' = "exit"
            /\ exitCode' = 1
            /\ UNCHANGED <<HOSTS, workers>>
       ELSE /\ HOSTS' = Fallback(HOSTS, host_pattern)
            /\ workers' = [i \in 1..Len(HOSTS') |-> IdleWorker]
            /\ pc' = "run"
            /\ UNCHANGED <<stdout, exitCode>>
    /\ host_pattern' = EmptyStr
    /\ lineno' = 0
    /\ line' = NoLine
    /\ current_host' = EmptyStr
    /\ hostnames' = EmptyDict
    /\ hosts_set' = {}
    /\ UNCHANGED <<MASS_MODE, SUDO_MODE, VERBOSE_MODE, USERNAME, PATTERN, COMMAND,
                   started, files, connects, tmpRemoved>>

----------------------------------------------------------------------------
(* handle_process_substitution, wrap_remote_command.                        *)

\* "<", "(", ")"
Lt == <<60>>
LParen == <<40>>
RParen == <<41>>
\* "&|;><$(){}[]*"
MetaChars == <<38, 124, 59, 62, 60, 36, 40, 41, 123, 125, 91, 93, 42>>
\* "sudo ", "sh -c ", ".out"
SudoPrefix == <<115, 117, 100, 111, 32>>
ShPrefix == <<115, 104, 32, 45, 99, 32>>
OutSuffix == <<46, 111, 117, 116>>

\* the end of a match of <\([^()]*\) that starts at i, 0 if none starts there
MatchEnd(cmd, i) ==
    IF i + 2 <= Len(cmd) /\ cmd[i] = Lt[1] /\ cmd[i + 1] = LParen[1]
       /\ \E j \in (i + 2)..Len(cmd) : cmd[j] \in {LParen[1], RParen[1]}
    THEN LET j == CHOOSE j \in (i + 2)..Len(cmd) :
                    /\ cmd[j] \in {LParen[1], RParen[1]}
                    /\ \A k \in (i + 2)..(j - 1) : cmd[k] \notin {LParen[1], RParen[1]}
         IN  IF cmd[j] = RParen[1] THEN j ELSE 0
    ELSE 0

RECURSIVE FindAll(_, _)
\* re.findall(r"<(\([^()]*\))", cmd): the text of group 1 of every match, from i on
FindAll(cmd, i) ==
    IF i > Len(cmd) THEN << >>
    ELSE LET e == MatchEnd(cmd, i)
         IN  IF e = 0 THEN FindAll(cmd, i + 1)
             ELSE <<SubSeq(cmd, i + 1, e)>> \o FindAll(cmd, e + 1)

RECURSIVE Replace(_, _, _)
\* Python: s.replace(old, new) for a non-empty old
Replace(s, old, new) ==
    IF Len(s) < Len(old) THEN s
    ELSE IF SubSeq(s, 1, Len(old)) = old
    THEN new \o Replace(SubSeq(s, Len(old) + 1, Len(s)), old, new)
    ELSE <<s[1]>> \o Replace(Tail(s), old, new)

\* fifo_path of the k-th marker of the build made by worker w: "/f<w><k>"
FifoPath(w, k) == <<47, 102, 48 + w, 48 + k>>

\* f"<({match})"
Replaced(match) == Lt \o LParen \o match \o RParen

RECURSIVE SubstLoop(_, _, _, _)
\* for match in matches: cmd = cmd.replace(f"<({match})", create_subprocess(match))
SubstLoop(cmd, matches, w, k) ==
    IF k > Len(matches) THEN cmd
    ELSE SubstLoop(Replace(cmd, Replaced(matches[k]), FifoPath(w, k)), matches, w, k + 1)

\* handle_process_substitution(cmd) called by worker w
HandleProcessSubstitution(cmd, w) == SubstLoop(cmd, FindAll(cmd, 1), w, 1)

\* any(char in cmd_str for char in "&|;><$(){}[]*")
HasMeta(s) == \E i \in 1..Len(s) : \E m \in 1..Len(MetaChars) : s[i] = MetaChars[m]

\* " ".join(f"'{c}'" for c in COMMAND)
QuotedCmd(command) ==
    Join([i \in 1..Len(command) |-> Quote \o command[i] \o Quote], Space)

\* the escalation prefix is left off the sh -c wrapper
WrapSudoBareOnly(command, sudo, w) ==
    IF command = << >> THEN EmptyStr
    ELSE LET cmd_str == HandleProcessSubstitution(Join(command, Space), w)
         IN  IF Len(command) = 1
             THEN (IF sudo THEN SudoPrefix \o cmd_str ELSE cmd_str)
             ELSE ShPrefix \o QuotedCmd(command)

\* wrap_remote_command() called by worker w
WrapRemoteCommand(command, sudo, w) ==
    IF command = << >> THEN EmptyStr
    ELSE LET cmd_str == HandleProcessSubstitution(Join(command, Space), w)
         IN  IF Len(command) = 1
             THEN (IF sudo THEN SudoPrefix \o cmd_str ELSE cmd_str)
             ELSE IF HasMeta(cmd_str) \/ Len(command) > 1
             THEN (IF sudo THEN SudoPrefix \o ShPrefix \o QuotedCmd(command)
                           ELSE ShPrefix \o QuotedCmd(command))
             ELSE (IF sudo THEN SudoPrefix \o cmd_str ELSE cmd_str)

----------------------------------------------------------------------------
(* execute_ssh: one activation per host, worker i runs it for HOSTS[i].     *)

\* "/dev/stdout"
DevStdout == <<47, 100, 101, 118, 47, 115, 116, 100, 111, 117, 116>>
\* "error", "not found"
Str_error == <<101, 114, 114, 111, 114>>
Str_not_found == <<110, 111, 116, 32, 102, 111, 117, 110, 100>>
\* what a remote command may print: "ok", "Error", "Not Found"
OutputUniverse == { <<111, 107>>, <<69, 114, 114, 111, 114>>,
                    <<78, 111, 116, 32, 70, 111, 117, 110, 100>> }
\* the exit statuses a remote command may end with
StatusUniverse == {0, 2}

\* os.path.join(tmpdir, f"{host}.out"), relative to tmpdir
TmpFile(host) == host \o OutSuffix

\* the output_file argument of worker i
OutputFile(i) == IF MASS_MODE THEN TmpFile(HOSTS[i]) ELSE DevStdout

\* the verbose_prefix argument of worker i
VerbosePrefix(i) == IF MASS_MODE /\ VERBOSE_MODE THEN <<[kind |-> "prefix", host |-> HOSTS[i]]>>
                    ELSE << >>

\* the directory after open(name, mode) ... f.write(block)
WriteFile(dir, name, mode, block) ==
    [n \in DOMAIN dir \cup {name} |->
        IF n # name THEN dir[n]
        ELSE IF mode = "a" /\ name \in DOMAIN dir THEN Append(dir[name], block)
        ELSE <<block>>]

\* open(output_file, mode) ... f.write(block): /dev/stdout is the process's output
Write(i, mode, block) ==
    IF OutputFile(i) = DevStdout
    THEN /\ stdout' = Append(stdout, block)
         /\ files' = files
    ELSE /\ files' = WriteFile(files, OutputFile(i), mode, block)
         /\ stdout' = stdout

\* lines 234-251: the verbose prefix, the client, ssh.connect
W_Connect(i) ==
    /\ workers[i].pc = "connect"
    /\ IF VERBOSE_MODE /\ VerbosePrefix(i) # << >>
       THEN Write(i, "w", VerbosePrefix(i)[1])
       ELSE UNCHANGED <<files, stdout>>
    /\ connects' = Append(connects, HOSTS[i])
    /\ \E ok \in BOOLEAN :
        workers' = [workers EXCEPT ![i] =
            IF ok THEN [@ EXCEPT !.pc = "build", !.session = "open"]
            ELSE [@ EXCEPT !.pc = "except", !.session = "created", !.raised = TRUE]]
    /\ UNCHANGED <<pc, exitCode, MASS_MODE, SUDO_MODE, VERBOSE_MODE, USERNAME, PATTERN,
                   HOSTS, COMMAND, host_pattern, lineno, current_host, hostnames,
                   hosts_set, started, tmpRemoved,
                   line>>

\* no producer thread is started
StartedProducersNone(matches) == << >>

\* lines 203-204: threading.Thread(target=write_to_fifo, daemon=True).start(),
\* once per match, each thread running the matched text
StartedProducers(matches) == matches

\* line 252: remote_cmd = wrap_remote_command(); every marker found gets a fifo
\* and a producer thread running the matched text; os.mkfifo may raise
W_Build(i) ==
    /\ workers[i].pc = "build"
    /\ LET matches == IF COMMAND = << >> THEN << >> ELSE FindAll(Join(COMMAND, Space), 1)
       IN  \E mkfifo_ok \in (IF matches = << >> THEN {TRUE} ELSE BOOLEAN) :
            workers' = [workers EXCEPT ![i] =
                IF mkfifo_ok
                THEN [@ EXCEPT !.pc = "exec",
                               !.remote_cmd = WrapRemoteCommand(COMMAND, SUDO_MODE, i),
                               !.fifos = [k \in 1..Len(matches) |-> FifoPath(i, k)],
                               !.producers = StartedProducers(matches),
                               !.builds = @ + 1]
                ELSE [@ EXCEPT !.pc = "except", !.raised = TRUE, !.builds = @ + 1]]
    /\ UNCHANGED <<pc, exitCode, MASS_MODE, SUDO_MODE, VERBOSE_MODE, USERNAME, PATTERN,
                   HOSTS, COMMAND, host_pattern, lineno, current_host, hostnames,
                   hosts_set, started, files, stdout, connects, tmpRemoved,
                   line>>

\* a policy that looks at the output before the exit status
ExitCodeOutputFirst(exit_status, output) ==
    IF Contains(Lower(output), Str_error) \/ Contains(Lower(output), Str_not_found)
    THEN 127
    ELSE exit_status

\* lines 262-268: exit_code from the exit status and the captured output
ExitCodeOf(exit_status, output) ==
    IF exit_status # 0 THEN exit_status
    ELSE IF Contains(Lower(output), Str_error) \/ Contains(Lower(output), Str_not_found)
    THEN 127
    ELSE 0

\* a pseudo-terminal is never requested
GetPtyNever(sudo) == FALSE

\* get_pty of ssh.exec_command
GetPty(sudo) == sudo

\* every built command is dispatched
HasCommandAlways(remote_cmd) == TRUE

\* line 253: if remote_cmd:
HasCommand(remote_cmd) == remote_cmd # EmptyStr

\* lines 253-272: exec_command, the output appended to output_file, the exit code;
\* an empty remote_cmd is the unsupported interactive session
W_Exec(i) ==
    /\ workers[i].pc = "exec"
    /\ IF HasCommand(workers[i].remote_cmd)
       THEN LET call == [cmd |-> workers[i].remote_cmd, pty |-> GetPty(SUDO_MODE)]
            IN  \/ \* exec_command raises
                   /\ workers' = [workers EXCEPT ![i] =
                          [@ EXCEPT !.pc = "except", !.raised = TRUE]]
                   /\ UNCHANGED <<files, stdout>>
                \/ \* reading the channel raises
                   /\ workers' = [workers EXCEPT ![i] =
                          [@ EXCEPT !.pc = "except", !.raised = TRUE,
                                    !.dispatched = Append(@, call)]]
                   /\ UNCHANGED <<files, stdout>>
                \/ \E output \in OutputUniverse, exit_status \in StatusUniverse :
                   /\ Write(i, "a", [kind |-> "output", text |-> output])
                   /\ workers' = [workers EXCEPT ![i] =
                          [@ EXCEPT !.pc = "finally", !.ran = TRUE,
                                    !.status = exit_status, !.output = output,
                                    !.dispatched = Append(@, call),
                                    !.exit_code = ExitCodeOf(exit_status, output)]]
       ELSE /\ workers' = [workers EXCEPT ![i] =
                   [@ EXCEPT !.pc = "finally", !.exit_code = 1]]
            /\ UNCHANGED <<files, stdout>>
    /\ UNCHANGED <<pc, exitCode, MASS_MODE, SUDO_MODE, VERBOSE_MODE, USERNAME, PATTERN,
                   HOSTS, COMMAND, host_pattern, lineno, current_host, hostnames,
                   hosts_set, started, connects, tmpRemoved,
                   line>>

\* lines 273-277: except Exception: exit_code = 1 and the failure appended to
\* output_file
W_Except(i) ==
    /\ workers[i].pc = "except"
    /\ Write(i, "a", [kind |-> "connfail", host |-> HOSTS[i]])
    /\ workers' = [workers EXCEPT ![i] = [@ EXCEPT !.pc = "finally", !.exit_code = 1]]
    /\ UNCHANGED <<pc, exitCode, MASS_MODE, SUDO_MODE, VERBOSE_MODE, USERNAME, PATTERN,
                   HOSTS, COMMAND, host_pattern, lineno, current_host, hostnames,
                   hosts_set, started, connects, tmpRemoved,
                   line>>

\* the session is closed at the end of the try body only
CloseSessionUnlessRaised(w) ==
    IF w.raised THEN w ELSE [w EXCEPT !.session = "closed", !.closes = @ + 1]

\* line 279: ssh.close()
CloseSession(w) == [w EXCEPT !.session = "closed", !.closes = @ + 1]

\* lines 278-282: finally: ssh.close(); return exit_code
W_Finally(i) ==
    /\ workers[i].pc = "finally"
    /\ workers' = [workers EXCEPT ![i] = [CloseSession(@) EXCEPT !.pc = "done"]]
    /\ UNCHANGED <<pc, exitCode, MASS_MODE, SUDO_MODE, VERBOSE_MODE, USERNAME, PATTERN,
                   HOSTS, COMMAND, host_pattern, lineno, current_host, hostnames,
                   hosts_set, started, files, stdout, connects, tmpRemoved,
                   line>>

----------------------------------------------------------------------------
(* execute_ssh_command, parallel_execute and the end of the process.        *)

\* lines 286-289: the loop of execute_ssh_command calls execute_ssh for the next host
S_Call ==
    /\ pc = "run"
    /\ ~MASS_MODE
    /\ started < Len(HOSTS)
    /\ IF started = 0 THEN TRUE ELSE workers[started].pc = "done"
    /\ stdout' = IF VERBOSE_MODE
                 THEN Append(stdout, [kind |-> "executing", host |-> HOSTS[started + 1]])
                 ELSE stdout
    /\ workers' = [workers EXCEPT ![started + 1] = [@ EXCEPT !.pc = "connect"]]
    /\ started' = started + 1
    /\ UNCHANGED <<pc, exitCode, MASS_MODE, SUDO_MODE, VERBOSE_MODE, USERNAME, PATTERN,
                   HOSTS, COMMAND, host_pattern, lineno, current_host, hostnames,
                   hosts_set, files, connects, tmpRemoved,
                   line>>

\* execute_ssh_command returns and the process ends
S_Return ==
    /\ pc = "run"
    /\ ~MASS_MODE
    /\ started = Len(HOSTS)
    /\ workers[started].pc = "done"
    /\ pc' = "exit"
    /\ exitCode' = 0
    /\ UNCHANGED <<MASS_MODE, SUDO_MODE, VERBOSE_MODE, USERNAME, PATTERN, HOSTS, COMMAND,
                   host_pattern, lineno, current_host, hostnames, hosts_set, workers,
                   started, files, stdout, connects, tmpRemoved,
                   line>>

\* lines 296-301: the next thread is created and started
Spawn ==
    /\ pc = "run"
    /\ MASS_MODE
    /\ started < Len(HOSTS)
    /\ workers' = [workers EXCEPT ![started + 1] = [@ EXCEPT !.pc = "connect"]]
    /\ started' = started + 1
    /\ UNCHANGED <<pc, exitCode, MASS_MODE, SUDO_MODE, VERBOSE_MODE, USERNAME, PATTERN,
                   HOSTS, COMMAND, host_pattern, lineno, current_host, hostnames,
                   hosts_set, files, stdout, connects, tmpRemoved,
                   line>>

\* a join that waits for the first thread only
JoinedFirst(ws) == ws[1].pc = "done"

\* for thread in threads: thread.join() has returned for every thread
Joined(ws) == \A i \in 1..Len(ws) : ws[i].pc = "done"

\* lines 302-303: the joins
JoinAll ==
    /\ pc = "run"
    /\ MASS_MODE
    /\ started = Len(HOSTS)
    /\ Joined(workers)
    /\ pc' = "report"
    /\ UNCHANGED <<exitCode, MASS_MODE, SUDO_MODE, VERBOSE_MODE, USERNAME, PATTERN, HOSTS,
                   COMMAND, host_pattern, lineno, current_host, hostnames, hosts_set,
                   workers, started, files, stdout, connects, tmpRemoved,
                   line>>

\* os.listdir(tmpdir): the names in the directory, in arbitrary order
ListDir(dir) ==
    { order \in [1..Cardinality(DOMAIN dir) -> DOMAIN dir] :
        \A a, b \in 1..Cardinality(DOMAIN dir) : a # b => order[a] # order[b] }

\* lines 304-306: every file of tmpdir is printed, in the order of os.listdir
Report ==
    /\ pc = "report"
    /\ \E order \in ListDir(files) :
        stdout' = stdout \o [k \in 1..Len(order) |->
                     [kind |-> "file", name |-> order[k], content |-> files[order[k]]]]
    /\ pc' = "cleanup"
    /\ UNCHANGED <<exitCode, MASS_MODE, SUDO_MODE, VERBOSE_MODE, USERNAME, PATTERN, HOSTS,
                   COMMAND, host_pattern, lineno, current_host, hostnames, hosts_set,
                   workers, started, files, connects, tmpRemoved,
                   line>>

\* line 307: os.rmdir(tmpdir) raises OSError when the directory is not empty,
\* and the uncaught exception ends the process with status 1
Cleanup ==
    /\ pc = "cleanup"
    /\ pc' = "exit"
    /\ IF DOMAIN files = {}
       THEN tmpRemoved' = TRUE /\ exitCode' = 0
       ELSE tmpRemoved' = FALSE /\ exitCode' = 1
    /\ UNCHANGED <<MASS_MODE, SUDO_MODE, VERBOSE_MODE, USERNAME, PATTERN, HOSTS, COMMAND,
                   host_pattern, lineno, current_host, hostnames, hosts_set, workers,
                   started, files, stdout, connects,
                   line>>

----------------------------------------------------------------------------
(* The program.                                                             *)

\* the module's globals as lines 25-34 set them, before __main__ runs
Init ==
    /\ pc = "start"
    /\ exitCode = -1
    /\ MASS_MODE = FALSE
    /\ SUDO_MODE = FALSE
    /\ VERBOSE_MODE = FALSE
    /\ USERNAME = EmptyStr
    /\ PATTERN = EmptyStr
    /\ HOSTS = << >>
    /\ COMMAND = << >>
    /\ host_pattern = EmptyStr
    /\ lineno = 0
    /\ current_host = EmptyStr
    /\ hostnames = EmptyDict
    /\ hosts_set = {}
    /\ workers = << >>
    /\ started = 0
    /\ files = EmptyDict
    /\ stdout = << >>
    /\ connects = << >>
    /\ tmpRemoved = FALSE
    /\ line = NoLine

Worker ==
    \E i \in 1..Len(workers) :
        \/ W_Connect(i)
        \/ W_Build(i)
        \/ W_Exec(i)
        \/ W_Except(i)
        \/ W_Finally(i)

Next ==
    \/ ValidateInput
    \/ ExtractBegin
    \/ ParseLine
    \/ MatchHosts
    \/ Gate
    \/ S_Call
    \/ S_Return
    \/ Spawn
    \/ JoinAll
    \/ Report
    \/ Cleanup
    \/ Worker

Spec == Init /\ [][Next]_vars

----------------------------------------------------------------------------
(* Host resolution on its own: extract_hosts entered after validate_input   *)
(* accepted a command line, run on configuration files over the wider       *)
(* alias universe.                                                          *)

InitResolve ==
    /\ pc = "extract"
    /\ exitCode = -1
    /\ MASS_MODE \in BOOLEAN
    /\ SUDO_MODE = FALSE
    /\ VERBOSE_MODE = FALSE
    /\ USERNAME = EmptyStr
    /\ PATTERN \in PatternUniverse
    /\ HOSTS = << >>
    /\ COMMAND = <<Tok_ls>>
    /\ host_pattern = EmptyStr
    /\ lineno = 0
    /\ current_host = EmptyStr
    /\ hostnames = EmptyDict
    /\ hosts_set = {}
    /\ workers = << >>
    /\ started = 0
    /\ files = EmptyDict
    /\ stdout = << >>
    /\ connects = << >>
    /\ tmpRemoved = FALSE
    /\ line = NoLine

NextResolve ==
    \/ ExtractBegin
    \/ ParseLineWide
    \/ MatchHosts
    \/ Gate

SpecResolve == InitResolve /\ [][NextResolve]_vars

----------------------------------------------------------------------------
(* wrap_remote_command alone: a worker that has connected builds the        *)
(* command of a run whose token list is drawn from a wider universe.        *)

\* the longest token list
MaxTokens == 2

\* "sudo id"
Tok_sudo_id == <<115, 117, 100, 111, 32, 105, 100>>

\* the tokens of a command line
TokenUniverse == {EmptyStr, Tok_ls, Tok_l, Tok_pipe, Tok_subst, Tok_sudo_id}

\* a single-host run after ssh.connect succeeded on its host "h"
InitBuild ==
    /\ pc = "run"
    /\ exitCode = -1
    /\ MASS_MODE = FALSE
    /\ SUDO_MODE \in BOOLEAN
    /\ VERBOSE_MODE = FALSE
    /\ USERNAME = EmptyStr
    /\ PATTERN = <<104>>
    /\ HOSTS = << <<104>> >>
    /\ COMMAND \in SeqsUpTo(TokenUniverse, MaxTokens)
    /\ host_pattern = EmptyStr
    /\ lineno = 0
    /\ current_host = EmptyStr
    /\ hostnames = EmptyDict
    /\ hosts_set = {}
    /\ workers = <<[IdleWorker EXCEPT !.pc = "build", !.session = "open"]>>
    /\ started = 1
    /\ files = EmptyDict
    /\ stdout = << >>
    /\ connects = << <<104>> >>
    /\ tmpRemoved = FALSE
    /\ line = NoLine

NextBuild == \E i \in 1..Len(workers) : W_Build(i)

SpecBuild == InitBuild /\ [][NextBuild]_vars

----------------------------------------------------------------------------
(* Properties.                                                              *)

\* C1: ambiguity gate.  Whenever resolution has yielded more than one address
\* and mass mode is off, the run is at the gate or has ended there with exit
\* status 1; no host has been connected to, no execution has been set up, and
\* the list still holds every candidate (none was picked).
C1_AmbiguityGate ==
    (~MASS_MODE /\ Len(HOSTS) > 1) =>
        /\ pc \in {"gate", "exit"}
        /\ pc = "exit" => exitCode = 1
        /\ connects = << >>
        /\ workers = << >>
        /\ started = 0

C1_Witness ==
    /\ pc = "exit"
    /\ ~MASS_MODE
    /\ Len(HOSTS) = 2
    /\ exitCode = 1
    /\ \E k \in 1..Len(stdout) : stdout[k].kind = "multiple"

\* the command text names a restricted command: 'shutdown', 'poweroff' or
\* 'reboot' occurs in the tokens joined with spaces
RestrictedText(command) ==
    LET text == Join(command, Space)
    IN  \E w \in { <<115, 104, 117, 116, 100, 111, 119, 110>>,
                   <<112, 111, 119, 101, 114, 111, 102, 102>>,
                   <<114, 101, 98, 111, 111, 116>> } :
            \E i \in 1..Len(text) :
                i + Len(w) - 1 <= Len(text) /\ \A j \in 1..Len(w) : text[i + j - 1] = w[j]

\* C2: restricted-command gate.  In mass mode a command text that contains a
\* restricted command ends the run with exit status 1 before host resolution
\* has begun: nothing was resolved, no worker exists, no connection was made.
C2_RestrictedGate ==
    (MASS_MODE /\ RestrictedText(COMMAND)) =>
        /\ pc = "exit"
        /\ exitCode = 1
        /\ HOSTS = << >>
        /\ host_pattern = EmptyStr
        /\ hosts_set = {}
        /\ workers = << >>
        /\ connects = << >>

C2_Witness ==
    /\ MASS_MODE
    /\ COMMAND = <<Tok_ls, Tok_xreboot>>
    /\ pc = "exit"
    /\ exitCode = 1

\* the file blocks of the final report, in the order they were printed
ReportBlocks == SelectSeq(stdout, LAMBDA b : b.kind = "file")

\* the position of the host whose buffer has this name
HostIndex(name) == CHOOSE i \in 1..Len(HOSTS) : TmpFile(HOSTS[i]) = name

\* C3: deterministic report order.  Once the report has been printed in mass
\* mode, the buffers appear in the order of the resolved host list.
C3_ReportOrder ==
    (MASS_MODE /\ pc \in {"cleanup", "exit"}) =>
        \A a, b \in 1..Len(ReportBlocks) :
            a < b => HostIndex(ReportBlocks[a].name) < HostIndex(ReportBlocks[b].name)

\* C4: per-host failure isolation.  Once the report has been printed in mass
\* mode, every worker has run to completion, the report holds exactly one
\* block per host, and the block of every host whose execution raised holds
\* the connection-failure message naming that host, its exit code being 1.
C4_FailureIsolation ==
    (MASS_MODE /\ pc = "cleanup") =>
        /\ Len(ReportBlocks) = Len(HOSTS)
        /\ \A i \in 1..Len(HOSTS) :
            /\ workers[i].pc = "done"
            /\ Cardinality({ k \in 1..Len(ReportBlocks) :
                                ReportBlocks[k].name = TmpFile(HOSTS[i]) }) = 1
            /\ workers[i].raised =>
                /\ workers[i].exit_code = 1
                /\ \E k \in 1..Len(ReportBlocks) :
                    /\ ReportBlocks[k].name = TmpFile(HOSTS[i])
                    /\ \E m \in 1..Len(ReportBlocks[k].content) :
                        ReportBlocks[k].content[m] = [kind |-> "connfail", host |-> HOSTS[i]]

\* C5: join barrier.  In mass mode no buffer is read or printed before every
\* thread has been started and has terminated.
C5_JoinBarrier ==
    (MASS_MODE /\ (pc \in {"report", "cleanup"} \/ ReportBlocks # << >>)) =>
        /\ started = Len(HOSTS)
        /\ \A i \in 1..Len(HOSTS) : workers[i].pc = "done"

C5_Witness ==
    /\ MASS_MODE
    /\ pc = "cleanup"
    /\ Len(HOSTS) = 2
    /\ Len(ReportBlocks) = 2
    /\ workers[1].raised /\ workers[2].ran

\* the text holds 'error' or 'not found', whatever the case of its letters
MentionsFailure(text) ==
    \E w \in { Str_error, Str_not_found } :
        \E i \in 1..Len(text) :
            /\ i + Len(w) - 1 <= Len(text)
            /\ \A j \in 1..Len(w) :
                \/ text[i + j - 1] = w[j]
                \/ w[j] \in 97..122 /\ text[i + j - 1] = w[j] - 32

\* C6: exit-status policy.  An execution that raised returns 1; one whose
\* remote command ran returns the remote exit status if that is not 0, else
\* 127 if the captured output mentions a failure, else 0.
C6_ExitPolicy ==
    \A i \in 1..Len(workers) :
        (workers[i].pc = "done" /\ (workers[i].raised \/ workers[i].ran)) =>
            workers[i].exit_code =
                IF workers[i].raised THEN 1
                ELSE IF workers[i].status # 0 THEN workers[i].status
                ELSE IF MentionsFailure(workers[i].output) THEN 127
                ELSE 0

C6_Witness ==
    \E i \in 1..Len(workers) :
        /\ workers[i].pc = "done"
        /\ workers[i].ran
        /\ workers[i].status = 2
        /\ MentionsFailure(workers[i].output)
        /\ workers[i].exit_code = 2

\* the part of the pattern after its first '@', the whole pattern if it has none
ClaimHostPattern(pattern) ==
    LET ats == { i \in 1..Len(pattern) : pattern[i] = 64 }
    IN  IF ats = {} THEN pattern
        ELSE LET first == CHOOSE i \in ats : \A j \in ats : i <= j
             IN  [k \in 1..(Len(pattern) - first) |-> pattern[first + k]]

\* the declared aliases without '*' whose lowercase form contains the
\* lowercase host pattern
MatchingAliases ==
    { a \in hosts_set :
        /\ \A i \in 1..Len(a) : a[i] # 42
        /\ Contains(Lower(a), Lower(ClaimHostPattern(PATTERN))) }

\* C7: fallback and non-emptiness.  When extract_hosts returns without
\* aborting, the host list is not empty, and it is exactly [hostPattern] if
\* no non-wildcard alias matched (the absent file included: no alias at all).
C7_Fallback ==
    [][(pc = "gate" /\ pc' = "run") =>
            /\ HOSTS' # << >>
            /\ MatchingAliases = {} => HOSTS' = <<ClaimHostPattern(PATTERN)>>]_vars

\* the pattern "u@a.@" matched no alias and the list is ["a.@"]
C7_Witness ==
    /\ pc = "run"
    /\ PATTERN = <<117, 64, 97, 46, 64>>
    /\ HOSTS = << <<97, 46, 64>> >>
    /\ workers # << >>

\* the address registered for an alias, the alias itself if none is
RegisteredAddress(a) == IF a \in DOMAIN hostnames THEN hostnames[a] ELSE a

\* alias a comes before alias b in the order of dot-separated segments
SegmentsBefore(a, b) == ListLess(Split(a, Dot), Split(b, Dot))

\* C8: resolution result.  After the matching loop the host list holds
\* exactly the addresses of the matching aliases, each once, and an address
\* whose first matching alias (in segment order) comes earlier stands earlier.
C8_Resolution ==
    pc = "gate" =>
        /\ { HOSTS[i] : i \in 1..Len(HOSTS) } = { RegisteredAddress(a) : a \in MatchingAliases }
        /\ \A i, j \in 1..Len(HOSTS) : i # j => HOSTS[i] # HOSTS[j]
        /\ \A i, j \in 1..Len(HOSTS) :
            i < j =>
                \E a \in MatchingAliases :
                    /\ RegisteredAddress(a) = HOSTS[i]
                    /\ \A b \in MatchingAliases :
                        RegisteredAddress(b) = HOSTS[j] => SegmentsBefore(a, b)

\* "a" and "a-b" are registered as "h", "a.B" as itself; pattern "u@A" matches
\* the three and the list is ["h", "a.B"]
C8_Witness ==
    /\ pc = "gate"
    /\ Cardinality(MatchingAliases) = 3
    /\ HOSTS = << <<104>>, <<97, 46, 66>> >>
    /\ RegisteredAddress(<<97, 45, 98>>) = <<104>>

\* the token holds one of the metacharacters & | ; > < $ ( ) { } [ ] *
HoldsMetaChar(token) ==
    \E i \in 1..Len(token) :
        token[i] \in {38, 124, 59, 62, 60, 36, 40, 41, 123, 125, 91, 93, 42}

\* C9: command wrapping rule (escalation off).  The command built from a
\* non-empty token list is the bare token if there is exactly one token and it
\* holds no metacharacter; in every other case it is 'sh -c ' followed by the
\* original tokens, each in single quotes, joined with spaces.
C9_WrapRule ==
    \A i \in 1..Len(workers) :
        (workers[i].pc = "exec" /\ COMMAND # << >> /\ ~SUDO_MODE) =>
            workers[i].remote_cmd =
                IF Len(COMMAND) = 1 /\ ~HoldsMetaChar(COMMAND[1])
                THEN COMMAND[1]
                ELSE ShPrefix \o Join([k \in 1..Len(COMMAND) |->
                                          Quote \o COMMAND[k] \o Quote], Space)

\* the markers <(inner) of the command text, each as "(inner)"
Markers == IF COMMAND = << >> THEN << >> ELSE FindAll(Join(COMMAND, Space), 1)

\* C10: substitution of embedded-subprocess markers.  Every command dispatched
\* for a command text with markers holds the path created for each marker,
\* holds no marker any more, and the command run locally for a marker is the
\* text between its parentheses.
C10_Substitution ==
    \A i \in 1..Len(workers) :
        (workers[i].dispatched # << >> /\ Markers # << >>) =>
            \A d \in 1..Len(workers[i].dispatched) :
                \A k \in 1..Len(Markers) :
                    /\ Contains(workers[i].dispatched[d].cmd, workers[i].fifos[k])
                    /\ ~Contains(workers[i].dispatched[d].cmd, Lt \o Markers[k])
                    /\ workers[i].producers[k] =
                           SubSeq(Markers[k], 2, Len(Markers[k]) - 1)

\* s begins with p
StartsWith(s, p) == Len(s) >= Len(p) /\ SubSeq(s, 1, Len(p)) = p

\* the final invocations of a token list: the bare command text and the
\* sh -c wrapper around the quoted tokens
FinalInvocations(command) == {Join(command, Space), ShPrefix \o QuotedCmd(command)}

WildcardBlock(l) ==
    /\ l.kind = "Host"
    /\ l.args # << >>
    /\ \A k \in 1..Len(l.args) : Contains(l.args[k], Star)

\* C12: after a Host line that declares wildcard aliases only, the wildcard is
\* the current context, so the Hostname line that follows changes the address
\* of no alias declared before.
C12_WildcardBlock ==
    [][(pc = "parse" /\ lineno' = lineno + 1 /\ WildcardBlock(line)
           /\ line'.kind = "Hostname")
        => \A a \in hosts_set : DictGet(hostnames', a) = DictGet(hostnames, a)]_vars

\* C13: a run that passed validation and resolution ends with process exit
\* code 0, in mass mode as in single-host mode.
C13_ExitZero == (pc = "exit" /\ workers # << >>) => exitCode = 0

\* the result codes printed in the report block of the file called name
ReportedCodes(name) ==
    UNION { {stdout[k].content[m].code :
                m \in {n \in 1..Len(stdout[k].content) :
                          stdout[k].content[n].kind = "exit_code"}} :
            k \in {j \in 1..Len(stdout) :
                      stdout[j].kind = "file" /\ stdout[j].name = name} }

\* C14: in mass mode, once the report is printed, the result code of every host
\* is in the printed block of that host.
C14_ExitCodesReported ==
    (MASS_MODE /\ pc \in {"cleanup", "exit"} /\ workers # << >>) =>
        \A i \in 1..Len(workers) :
            workers[i].exit_code \in ReportedCodes(TmpFile(HOSTS[i]))

\* C15: with an empty token list the built command is the empty string; a
\* single-host run dispatches no remote command and its host ends with result
\* code 1; a mass-mode run is rejected with exit code 1 before any host is
\* resolved or connected to.
C15_EmptyCommand ==
    COMMAND = << >> =>
        /\ MASS_MODE => /\ pc = "exit"
                        /\ exitCode = 1
                        /\ HOSTS = << >>
                        /\ host_pattern = EmptyStr
                        /\ workers = << >>
                        /\ connects = << >>
        /\ \A i \in 1..Len(workers) :
              /\ workers[i].remote_cmd = EmptyStr
              /\ workers[i].dispatched = << >>
              /\ workers[i].pc \in {"finally", "done"} => workers[i].exit_code = 1

\* a single-host run with no command connected, built the empty command and
\* returned
C15_Witness ==
    /\ ~MASS_MODE
    /\ COMMAND = << >>
    /\ \E i \in 1..Len(workers) :
          /\ workers[i].pc = "done"
          /\ workers[i].builds = 1
          /\ ~workers[i].raised
          /\ workers[i].exit_code = 1

RECURSIVE TotalBuilds(_)
\* the number of times the command was built by the first n workers
TotalBuilds(n) == IF n = 0 THEN 0 ELSE workers[n].builds + TotalBuilds(n - 1)

\* C16: the remote command is built once per run and before the first
\* connection attempt: whenever a connection has been attempted exactly one
\* build has completed, and there is never more than one.
C16_BuildBeforeConnect ==
    /\ TotalBuilds(Len(workers)) <= 1
    /\ connects # << >> => TotalBuilds(Len(workers)) = 1

\* C17: when a command is dispatched, a path was created and a producer thread
\* was started for every marker of the command text.
C17_ProducerBeforeDispatch ==
    \A i \in 1..Len(workers) :
        workers[i].dispatched # << >> =>
            /\ workers[i].fifos = [k \in 1..Len(Markers) |-> FifoPath(i, k)]
            /\ workers[i].producers = Markers

\* a command with a marker was dispatched
C17_Witness ==
    \E i \in 1..Len(workers) :
        /\ workers[i].dispatched # << >>
        /\ Markers # << >>
        /\ workers[i].producers # << >>

\* what worker i has written: its prefix, the output of its command, the
\* failure of its connection
OwnWrites(i) ==
    (IF workers[i].pc \notin {"idle", "connect"} THEN VerbosePrefix(i) ELSE << >>)
    \o (IF workers[i].ran
        THEN <<[kind |-> "output", text |-> workers[i].output]>> ELSE << >>)
    \o (IF workers[i].raised /\ workers[i].pc \in {"finally", "done"}
        THEN <<[kind |-> "connfail", host |-> HOSTS[i]]>> ELSE << >>)

\* C18: in mass mode there is one worker per element of HOSTS, started once;
\* the buffers of two workers are different files; every buffer holds what its
\* own worker wrote and nothing else, and no worker writes anywhere else.
C18_BufferExclusivity ==
    (MASS_MODE /\ workers # << >>) =>
        /\ Len(workers) = Len(HOSTS)
        /\ \A i \in 1..Len(workers) : (workers[i].pc # "idle") <=> (i <= started)
        /\ \A i, j \in 1..Len(workers) : i # j => OutputFile(i) # OutputFile(j)
        /\ DOMAIN files \subseteq {OutputFile(i) : i \in 1..Len(workers)}
        /\ \A i \in 1..Len(workers) :
              IF OwnWrites(i) = << >>
              THEN OutputFile(i) \notin DOMAIN files
              ELSE /\ OutputFile(i) \in DOMAIN files
                   /\ files[OutputFile(i)] = OwnWrites(i)
        /\ pc = "run" => stdout = << >>

\* two workers have finished and each has written its buffer
C18_Witness ==
    /\ MASS_MODE
    /\ Len(workers) = 2
    /\ \A i \in 1..Len(workers) :
          workers[i].pc = "done" /\ OutputFile(i) \in DOMAIN files

\* C19: a remote command is dispatched with a pseudo-terminal requested exactly
\* when privilege escalation is enabled.
C19_PtyIffSudo ==
    \A i \in 1..Len(workers) :
        \A k \in 1..Len(workers[i].dispatched) :
            workers[i].dispatched[k].pty <=> SUDO_MODE

\* a command was dispatched with a pseudo-terminal
C19_Witness ==
    \E i \in 1..Len(workers) :
        /\ SUDO_MODE
        /\ workers[i].dispatched # << >>
        /\ workers[i].dispatched[1].pty

\* C20: an execution that has returned closed its session exactly once, one
\* that has not returned has not closed it, and once the workers of a run have
\* all finished no session is open.
C20_SessionRelease ==
    /\ \A i \in 1..Len(workers) :
          IF workers[i].pc = "done"
          THEN workers[i].closes = 1 /\ workers[i].session = "closed"
          ELSE workers[i].closes = 0
    /\ (pc \in {"report", "cleanup"} \/ (pc = "exit" /\ workers # << >>)) =>
          \A i \in 1..Len(workers) : workers[i].session = "closed"

\* an execution whose connection failed has returned with its session closed
C20_Witness ==
    \E i \in 1..Len(workers) :
        /\ workers[i].pc = "done"
        /\ workers[i].raised
        /\ workers[i].closes = 1

====
